---- MODULE Spec2Model ----
(***************************************************************************)
(* Model of the data-preparation core of myco_chess_engine (src/ml):       *)
(*   read_pgn.py          read_pgn_in_batches   (the batch reader)         *)
(*   position_data.py     compute_evaluation, generate_training_data       *)
(*   board_to_np_array.py board_to_np_array     (7x8x8 encoder of a board) *)
(*   fen_processing.py    fen_to_cnn_input_compact (7x8x8 encoder of FEN)  *)
(*   training.py          fen_to_sparse_array   (flat one-hot encoder)     *)
(* Each component has its own specification over the shared variables:     *)
(*   SpecReader, SpecEval, SpecWalker, SpecBoard, SpecFen.                 *)
(***************************************************************************)
EXTENDS Integers, Sequences, FiniteSets, TLC

VARIABLES
    pc,          \* position of the running function
    source,      \* reader: the game records of the PGN file, in file order
    batch_size,  \* reader: the batch_size argument
    nread,       \* reader: how many records read_game has returned so far
    batch,       \* reader: the local list `batch`
    yielded,     \* reader: the batches yielded so far, in yield order
    ev_n,        \* heuristic: total_moves
    ev_white,    \* heuristic: compute_evaluation(i, n, "white") for i = 1..
    ev_black,    \* heuristic: compute_evaluation(i, n, "black") for i = 1..
    game,        \* walker: the game record (start turn, mainline moves, Result)
    board,       \* walker: the local chess.Board `board`
    positions,   \* walker: the local list `positions`, and the returned list
    position,    \* encoders: the chess position to encode
    tensor,      \* encoders: what board_to_np_array(position) returned
    fen,         \* encoders: the FEN text handed to the FEN encoders
    cnn_input,   \* encoders: the outcome of fen_to_cnn_input_compact(fen)
    output_array \* encoders: the outcome of fen_to_sparse_array(fen)

readerVars == <<source, batch_size, nread, batch, yielded>>
evalVars == <<ev_n, ev_white, ev_black>>
walkerVars == <<game, board, positions>>
encoderVars == <<position, tensor, fen, cnn_input, output_array>>
vars == <<pc, readerVars, evalVars, walkerVars, encoderVars>>

\* ---------------------------------------------------------------- bounds
\* Largest number of game records in a source.
MaxGames == 5
\* Largest batch_size argument. The parameter is a plain int and is not
\* validated, so 0 is among the arguments tried (a negative batch_size behaves
\* like 0: len(batch) never equals it).
MaxBatchSize == 3
\* Largest total_moves the heuristic is applied to.
MaxTotalMoves == 14
\* Longest mainline of a game the walker is run on.
MaxMoves == 3
\* Last file (a = 0) an en-passant target of an encoded position lies on.
MaxEpFile == 4

\* ------------------------------------------------------------- utilities
RECURSIVE Flatten(_)
Flatten(ss) == IF ss = <<>> THEN <<>> ELSE Head(ss) \o Flatten(Tail(ss))

\* ========================================================================
\* read_pgn.py: read_pgn_in_batches
\* ========================================================================
\* The records are identified by their position in the file: 1, 2, ..., k.
Records(k) == [i \in 1..k |-> i]

idleReader == /\ source = <<>>
              /\ batch_size = 1
              /\ nread = 0
              /\ batch = <<>>
              /\ yielded = <<>>

idleEval == /\ ev_n = 1
            /\ ev_white = <<>>
            /\ ev_black = <<>>

idleWalker == /\ game = <<>>
              /\ board = <<>>
              /\ positions = <<>>

idleEncoders == /\ position = <<>>
                /\ tensor = <<>>
                /\ fen = <<>>
                /\ cnn_input = <<>>
                /\ output_array = <<>>

\* line 14: `if len(batch) == batch_size`
BatchFullGt(b, size) == Len(b) > size
BatchFull(b, size) == Len(b) = size

\* lines 10-11: `if batch: yield batch`
YieldRemainingDrop(b, ys) == ys
YieldRemaining(b, ys) == IF b # <<>> THEN Append(ys, b) ELSE ys

InitReader ==
    /\ pc = "read"
    /\ \E k \in 0..MaxGames : source = Records(k)
    /\ batch_size \in 0..MaxBatchSize
    /\ nread = 0
    /\ batch = <<>>
    /\ yielded = <<>>
    /\ idleEval
    /\ idleWalker
    /\ idleEncoders

\* lines 8, 13: read_game returns a game, which is appended to the batch.
ReadGame ==
    /\ pc = "read"
    /\ nread < Len(source)
    /\ nread' = nread + 1
    /\ batch' = Append(batch, source[nread + 1])
    /\ pc' = "check"
    /\ UNCHANGED <<source, batch_size, yielded, evalVars, walkerVars, encoderVars>>

\* lines 8-12: read_game returns None at the end of the file; what is left
\* of the batch is yielded and the loop ends.
ReadEof ==
    /\ pc = "read"
    /\ nread = Len(source)
    /\ yielded' = YieldRemaining(batch, yielded)
    /\ pc' = "done"
    /\ UNCHANGED <<source, batch_size, nread, batch, evalVars, walkerVars, encoderVars>>

\* lines 14-16: a full batch is yielded and a new list started.
YieldFull ==
    /\ pc = "check"
    /\ BatchFull(batch, batch_size)
    /\ yielded' = Append(yielded, batch)
    /\ batch' = <<>>
    /\ pc' = "read"
    /\ UNCHANGED <<source, batch_size, nread, evalVars, walkerVars, encoderVars>>

\* line 14, condition false: back to the top of the loop.
KeepFilling ==
    /\ pc = "check"
    /\ ~BatchFull(batch, batch_size)
    /\ pc' = "read"
    /\ UNCHANGED <<source, batch_size, nread, batch, yielded, evalVars, walkerVars, encoderVars>>

NextReader == ReadGame \/ ReadEof \/ YieldFull \/ KeepFilling

SpecReader == InitReader /\ [][NextReader]_vars

\* C1: for k records and batch_size b >= 1 the finished reader has yielded
\* exactly ceil(k/b) batches (none for k = 0); every batch but the last holds
\* b records, the last holds ((k-1) mod b)+1, and the batches concatenated in
\* yield order are the source's records in source order.
C1_Completeness ==
    (pc = "done" /\ batch_size >= 1) =>
        LET k == Len(source)
            b == batch_size
            m == Len(yielded)
        IN  /\ m = (k + b - 1) \div b
            /\ \A j \in 1..(m - 1) : Len(yielded[j]) = b
            /\ (k > 0) => Len(yielded[m]) = ((k - 1) % b) + 1
            /\ Flatten(yielded) = source

\* A finished run over 5 records with batch_size 2: two full batches and a
\* partial last one.
C1_Witness ==
    /\ pc = "done"
    /\ batch_size = 2
    /\ Len(source) = 5
    /\ Len(yielded) = 3
    /\ Len(yielded[3]) = 1

\* C10 (as amended): for every batch_size >= 1, at every point of the run the
\* reader holds at most batch_size records that were not yet yielded, and
\* every yielded batch holds at least 1 and at most batch_size records.
C10_BoundedBatch ==
    (batch_size >= 1) =>
        /\ Len(batch) <= batch_size
        /\ \A j \in 1..Len(yielded) :
              Len(yielded[j]) >= 1 /\ Len(yielded[j]) <= batch_size

\* C10 as stated, for every integer batch_size.
C10_Original ==
    /\ Len(batch) <= batch_size
    /\ \A j \in 1..Len(yielded) :
          Len(yielded[j]) >= 1 /\ Len(yielded[j]) <= batch_size

\* A batch that has just reached capacity, after an earlier one was yielded.
C10_Witness ==
    /\ pc = "check"
    /\ batch_size = 2
    /\ Len(batch) = 2
    /\ Len(yielded) = 1

\* ========================================================================
\* position_data.py: compute_evaluation
\* ========================================================================
\* The floats of the code are modelled as exact rationals [num, den] with
\* den > 0. move_number / total_moves is the rational i/n, and the easing
\* polynomial 3*t^2 - 2*t^3 is put over the common denominator n^3. IEEE
\* rounding is not modelled.
Rat(n, d) == [num |-> n, den |-> d]
RatNeg(a) == [num |-> 0 - a.num, den |-> a.den]
RatLeq(a, b) == a.num * b.den <= b.num * a.den
RatEq(a, b) == a.num * b.den = b.num * a.den
RatZero == Rat(0, 1)
RatOne == Rat(1, 1)

\* line 32 with the coefficients exchanged: 2*t^2 - 3*t^3
EasingSwapped(t) ==
    Rat(2 * t.num * t.num * t.den - 3 * t.num * t.num * t.num,
        t.den * t.den * t.den)
\* line 32: evaluation = 3 * (normalized_move ** 2) - 2 * (normalized_move ** 3)
Easing(t) ==
    Rat(3 * t.num * t.num * t.den - 2 * t.num * t.num * t.num,
        t.den * t.den * t.den)

\* lines 29-33
compute_evaluation(move_number, total_moves, winner) ==
    LET normalized_move == Rat(move_number, total_moves)
        evaluation == Easing(normalized_move)
    IN  IF winner = "white" THEN evaluation ELSE RatNeg(evaluation)

InitEval ==
    /\ pc = "eval"
    /\ ev_n \in 1..MaxTotalMoves
    /\ ev_white = <<>>
    /\ ev_black = <<>>
    /\ idleReader
    /\ idleWalker
    /\ idleEncoders

\* One application of the heuristic to the next move index, for either winner.
Evaluate ==
    /\ pc = "eval"
    /\ Len(ev_white) < ev_n
    /\ LET i == Len(ev_white) + 1
       IN  /\ ev_white' = Append(ev_white, compute_evaluation(i, ev_n, "white"))
           /\ ev_black' = Append(ev_black, compute_evaluation(i, ev_n, "black"))
    /\ UNCHANGED <<pc, ev_n, readerVars, walkerVars, encoderVars>>

NextEval == Evaluate

SpecEval == InitEval /\ [][NextEval]_vars

\* C8: for 1 <= i <= j <= n the white-win label at i is at most the one at
\* j, the white-win label at i = n is exactly 1, the black-win label is the
\* negation of the white-win label, and every label lies in [-1, 1].
C8_Monotone ==
    /\ \A i \in 1..Len(ev_white) : \A j \in i..Len(ev_white) :
          /\ RatLeq(ev_white[i], ev_white[j])
          /\ RatLeq(ev_black[j], ev_black[i])
    /\ (Len(ev_white) = ev_n) => RatEq(ev_white[ev_n], RatOne)
    /\ \A i \in 1..Len(ev_white) :
          /\ RatEq(ev_black[i], RatNeg(ev_white[i]))
          /\ RatLeq(RatNeg(RatOne), ev_white[i]) /\ RatLeq(ev_white[i], RatOne)
          /\ RatLeq(RatNeg(RatOne), ev_black[i]) /\ RatLeq(ev_black[i], RatOne)

\* All labels of a game of at least 3 moves have been computed.
C8_Witness ==
    /\ pc = "eval"
    /\ ev_n >= 3
    /\ Len(ev_white) = ev_n
    /\ Len(ev_black) = ev_n

\* ========================================================================
\* The chess.Board the encoder and the walker read: piece_map(), turn,
\* ep_square, and push(move) as the walker uses it.
\* ========================================================================
WHITE == TRUE
BLACK == FALSE
\* `board.ep_square is None`
None == -1
Squares == 0..63
Planes == 0..6
Rows == 0..7
Cols == 0..7
PieceTypes == {"PAWN", "KNIGHT", "BISHOP", "ROOK", "QUEEN", "KING"}
Piece(t, c) == [piece_type |-> t, color |-> c]
BackRank == <<"ROOK", "KNIGHT", "BISHOP", "QUEEN", "KING", "BISHOP", "KNIGHT", "ROOK">>

\* square = rank * 8 + file, a1 = 0, h8 = 63
square_rank(sq) == sq \div 8
square_file(sq) == sq % 8

\* chess.Board(): the standard starting position.
StartPieces ==
    [sq \in (0..15) \cup (48..63) |->
        IF sq < 8 THEN Piece(BackRank[sq + 1], WHITE)
        ELSE IF sq < 16 THEN Piece("PAWN", WHITE)
        ELSE IF sq < 56 THEN Piece("PAWN", BLACK)
        ELSE Piece(BackRank[sq - 55], BLACK)]

MakeBoard(ps, t, ep) == [pieces |-> ps, turn |-> t, ep_square |-> ep]

\* A move is [from_square, to_square].
Move(f, t) == [from_square |-> f, to_square |-> t]

\* board.push(move) for a plain move: the piece goes from from_square to
\* to_square (replacing what stands there), the turn passes, and ep_square is
\* the square a pawn's double step passed over, else None.
push(b, m) ==
    LET piece == b.pieces[m.from_square]
        diff == m.to_square - m.from_square
        ep == IF piece.piece_type = "PAWN" /\ diff = 16 /\ square_rank(m.from_square) = 1
              THEN m.from_square + 8
              ELSE IF piece.piece_type = "PAWN" /\ diff = 0 - 16
                      /\ square_rank(m.from_square) = 6
              THEN m.from_square - 8
              ELSE None
        occupied == (DOMAIN b.pieces \ {m.from_square}) \cup {m.to_square}
    IN  MakeBoard([sq \in occupied |-> IF sq = m.to_square THEN piece ELSE b.pieces[sq]],
                  ~b.turn, ep)

\* ========================================================================
\* board_to_np_array.py: board_to_np_array
\* ========================================================================
\* lines 12-19: the layer of each piece type
piece_map(piece_type) ==
    CASE piece_type = "PAWN" -> 0
      [] piece_type = "ROOK" -> 1
      [] piece_type = "KNIGHT" -> 2
      [] piece_type = "BISHOP" -> 3
      [] piece_type = "QUEEN" -> 4
      [] piece_type = "KING" -> 5

\* np.flip(a, axis=1): the row axis of a [plane, row, col] array reversed
FlipRows(a) == [p \in Planes, r \in Rows, c \in Cols |-> a[p, 7 - r, c]]

\* a[:6] *= -1
NegatePieceLayers(a) ==
    [p \in Planes, r \in Rows, c \in Cols |-> IF p < 6 THEN 0 - a[p, r, c] ELSE a[p, r, c]]

\* lines 22-25: every piece of piece_map() written at divmod(square, 8) of
\* its layer, 1 for a white piece and -1 for a black one, into the zeros of
\* line 9 (each square holds one piece, so no write overwrites another)
PopulateLayers(b) ==
    [p \in Planes, r \in Rows, c \in Cols |->
        LET square == r * 8 + c
        IN  IF square \in DOMAIN b.pieces /\ piece_map(b.pieces[square].piece_type) = p
            THEN (IF b.pieces[square].color = WHITE THEN 1 ELSE 0 - 1)
            ELSE 0]

\* lines 28-30
PopulateEnPassant(a, b) ==
    IF b.ep_square # None
    THEN [a EXCEPT ![6, b.ep_square \div 8, b.ep_square % 8] = 0 - 1]
    ELSE a

\* lines 34-36 without the second flip
BlackToMoveNoFlip(a) == NegatePieceLayers(a)
\* lines 34-36
BlackToMove(a) == NegatePieceLayers(FlipRows(a))

\* lines 4-38
board_to_np_array(b) ==
    LET board_array == FlipRows(PopulateEnPassant(PopulateLayers(b), b))
    IN  IF b.turn = BLACK THEN BlackToMove(board_array) ELSE board_array

\* The positions the encoder is applied to: the empty board or the standard
\* starting position, with at most one more piece set on any square
\* (board.set_piece_at), either side to move, and no en-passant target or
\* one on the third or sixth rank (where a double step leaves it), on an
\* empty square.
EpSquares == {sq \in Squares : square_rank(sq) \in {2, 5} /\ square_file(sq) <= MaxEpFile}
Pieces == {Piece(t, c) : t \in PieceTypes, c \in {WHITE, BLACK}}
SetPieceAt(ps, sq, piece) ==
    [x \in DOMAIN ps \cup {sq} |-> IF x = sq THEN piece ELSE ps[x]]
EmptyPieces == [sq \in {} |-> Piece("PAWN", WHITE)]
Placements ==
    {EmptyPieces, StartPieces}
    \cup {SetPieceAt(base, sq, piece) :
            base \in {EmptyPieces, StartPieces}, sq \in Squares, piece \in Pieces}
PositionsWith(eps) ==
    {MakeBoard(ps, t, ep) : ps \in Placements, t \in {WHITE, BLACK}, ep \in {None} \cup eps}
Encodable(eps) == {b \in PositionsWith(eps) : b.ep_square \notin DOMAIN b.pieces}

InitBoard ==
    /\ pc = "input"
    /\ position \in Encodable(EpSquares)
    /\ tensor = <<>>
    /\ fen = <<>>
    /\ cnn_input = <<>>
    /\ output_array = <<>>
    /\ idleReader
    /\ idleEval
    /\ idleWalker

\* board_to_np_array(board)
EncodeBoard ==
    /\ pc = "input"
    /\ tensor' = board_to_np_array(position)
    /\ pc' = "encoded"
    /\ UNCHANGED <<position, fen, cnn_input, output_array, readerVars, evalVars, walkerVars>>

NextBoard == EncodeBoard

SpecBoard == InitBoard /\ [][NextBoard]_vars

\* C3: board_to_np_array is mover-relative. On planes 0-5 the cell of every
\* piece of the side to move holds +1 on exactly one plane and the cell of
\* every opponent piece holds -1 on exactly one plane, every other entry of
\* planes 0-5 is 0, and the rows are oriented so that the back rank of the
\* side to move is row 7 (White to move: rank 1; Black to move: rank 8).
C3_MoverRelative ==
    (pc = "encoded") =>
        \A sq \in Squares :
            LET row == IF position.turn = WHITE
                       THEN 7 - square_rank(sq) ELSE square_rank(sq)
                col == square_file(sq)
                hit == {p \in 0..5 : tensor[p, row, col] # 0}
            IN  IF sq \in DOMAIN position.pieces
                THEN /\ Cardinality(hit) = 1
                     /\ \A p \in hit :
                          tensor[p, row, col] =
                            IF position.pieces[sq].color = position.turn THEN 1 ELSE 0 - 1
                ELSE hit = {}

\* Black to move in a position with pieces of both sides and an en-passant
\* target, encoded.
C3_Witness ==
    /\ pc = "encoded"
    /\ position.turn = BLACK
    /\ position.ep_square # None
    /\ \E a, b \in DOMAIN position.pieces :
          position.pieces[a].color = WHITE /\ position.pieces[b].color = BLACK

\* ========================================================================
\* FEN text. A text is a sequence of one-character strings.
\* ========================================================================
Digits == <<"0", "1", "2", "3", "4", "5", "6", "7", "8", "9">>
FileLetters == <<"a", "b", "c", "d", "e", "f", "g", "h">>
IndexIn(seq, ch) == CHOOSE i \in 1..Len(seq) : seq[i] = ch
\* char.isdigit()
isdigit(ch) == \E i \in 1..Len(Digits) : Digits[i] = ch
\* int(char) of a digit
int(ch) == IndexIn(Digits, ch) - 1
\* ord(char) - ord('a') of a file letter
FileOf(ch) == IndexIn(FileLetters, ch) - 1
\* char.isupper() of a piece letter
isupper(ch) == ch \in {"P", "N", "B", "R", "Q", "K"}

\* str.split(sep): the pieces between the occurrences of sep; n occurrences
\* give n + 1 pieces, empty ones included.
RECURSIVE SplitFrom(_, _, _, _)
SplitFrom(text, sep, k, cur) ==
    IF k > Len(text) THEN <<cur>>
    ELSE IF text[k] = sep THEN <<cur>> \o SplitFrom(text, sep, k + 1, <<>>)
    ELSE SplitFrom(text, sep, k + 1, Append(cur, text[k]))
split(text, sep) == SplitFrom(text, sep, 1, <<>>)

RECURSIVE Join(_, _)
Join(parts, sep) ==
    IF Len(parts) = 0 THEN <<>>
    ELSE IF Len(parts) = 1 THEN parts[1]
    ELSE parts[1] \o <<sep>> \o Join(Tail(parts), sep)

\* The FEN letter of a piece: upper case for White, lower case for Black.
Symbol(piece) ==
    LET k == CASE piece.piece_type = "PAWN" -> 1
               [] piece.piece_type = "KNIGHT" -> 2
               [] piece.piece_type = "BISHOP" -> 3
               [] piece.piece_type = "ROOK" -> 4
               [] piece.piece_type = "QUEEN" -> 5
               [] piece.piece_type = "KING" -> 6
    IN  IF piece.color = WHITE THEN <<"P", "N", "B", "R", "Q", "K">>[k]
        ELSE <<"p", "n", "b", "r", "q", "k">>[k]

\* One rank of the piece-placement field, from file `file` on, `empty`
\* being the run of empty squares counted so far.
RECURSIVE RankFen(_, _, _, _)
RankFen(ps, rank, file, empty) ==
    LET flush == IF empty > 0 THEN <<Digits[empty + 1]>> ELSE <<>>
    IN  IF file > 7 THEN flush
        ELSE IF rank * 8 + file \in DOMAIN ps
        THEN flush \o <<Symbol(ps[rank * 8 + file])>> \o RankFen(ps, rank, file + 1, 0)
        ELSE RankFen(ps, rank, file + 1, empty + 1)

\* The piece-placement field: rank 8 first, rank 1 last, separated by "/".
BoardFen(ps) == Join([i \in 1..8 |-> RankFen(ps, 8 - i, 0, 0)], "/")

\* The name of a square: file letter, rank digit.
SquareName(sq) == <<FileLetters[square_file(sq) + 1], Digits[square_rank(sq) + 2]>>

\* The castling field: a right is written when its king and rook stand on
\* their home squares.
CastlingFen(ps) ==
    LET at(sq, t, c) == sq \in DOMAIN ps /\ ps[sq] = Piece(t, c)
        right(king, rook, c, letter) ==
            IF at(king, "KING", c) /\ at(rook, "ROOK", c) THEN <<letter>> ELSE <<>>
        rights == right(4, 7, WHITE, "K") \o right(4, 0, WHITE, "Q")
                  \o right(60, 63, BLACK, "k") \o right(60, 56, BLACK, "q")
    IN  IF rights = <<>> THEN <<"-">> ELSE rights

\* The six fields of the position's FEN: placement, side to move, castling
\* rights, en-passant target as the position holds it, and the two counters.
FenFields(b) ==
    << BoardFen(b.pieces),
       IF b.turn = WHITE THEN <<"w">> ELSE <<"b">>,
       CastlingFen(b.pieces),
       IF b.ep_square = None THEN <<"-">> ELSE SquareName(b.ep_square),
       <<"0">>,
       <<"1">> >>
PositionFen(b) == Join(FenFields(b), " ")

\* ========================================================================
\* fen_processing.py: fen_to_cnn_input_compact
\* ========================================================================
\* What a call gives: the returned array, or the exception it raised.
Returned(value) == [error |-> "none", value |-> value]
Raised(exception) == [error |-> exception, value |-> <<>>]

\* line 15: the unpacking of fen.split(' ') into six names
SixFields(text) == Len(split(text, " ")) = 6

\* lines 11-14
piece_to_index(ch) ==
    CASE ch \in {"P", "p"} -> 0
      [] ch \in {"N", "n"} -> 1
      [] ch \in {"B", "b"} -> 2
      [] ch \in {"R", "r"} -> 3
      [] ch \in {"Q", "q"} -> 4
      [] ch \in {"K", "k"} -> 5
PieceLetters == {"P", "N", "B", "R", "Q", "K", "p", "n", "b", "r", "q", "k"}

\* line 16: np.zeros((7, 8, 8))
Zeros788 == [p \in Planes, r \in Rows, c \in Cols |-> 0]

\* lines 20-26: the characters of one rank from the k-th on. A write outside
\* the 8x8 grid raises IndexError; a character that is neither a digit nor a
\* piece letter matches no branch and is passed over.
RECURSIVE CompactRank(_, _, _, _, _)
CompactRank(arr, rank, k, row_idx, col_idx) ==
    IF k > Len(rank) THEN Returned(arr)
    ELSE IF isdigit(rank[k])
    THEN CompactRank(arr, rank, k + 1, row_idx, col_idx + int(rank[k]))
    ELSE IF rank[k] \in PieceLetters
    THEN IF row_idx > 7 \/ col_idx > 7 THEN Raised("IndexError")
         ELSE CompactRank(
                [arr EXCEPT ![piece_to_index(rank[k]), row_idx, col_idx] =
                    IF isupper(rank[k]) THEN 1 ELSE 0 - 1],
                rank, k + 1, row_idx, col_idx + 1)
    ELSE CompactRank(arr, rank, k + 1, row_idx, col_idx)

\* lines 18-26: the ranks from the (row_idx + 1)-th on
RECURSIVE CompactRows(_, _, _)
CompactRows(arr, ranks, row_idx) ==
    IF row_idx >= Len(ranks) THEN Returned(arr)
    ELSE LET done == CompactRank(arr, ranks[row_idx + 1], 1, row_idx, 0)
         IN  IF done.error # "none" THEN done
             ELSE CompactRows(done.value, ranks, row_idx + 1)

\* lines 28-31: the file from the letter, the rank from the digit minus 1
\* (a negative index counts from the end; the letter is one of a..h)
CompactEnPassant(arr, en_passant) ==
    IF en_passant = <<"-">> THEN Returned(arr)
    ELSE IF Len(en_passant) < 2 THEN Raised("IndexError")
    ELSE IF ~isdigit(en_passant[2]) THEN Raised("ValueError")
    ELSE LET file == FileOf(en_passant[1])
             rank == int(en_passant[2]) - 1
         IN  IF rank > 7 THEN Raised("IndexError")
             ELSE Returned([arr EXCEPT ![6, IF rank < 0 THEN 8 + rank ELSE rank, file] = 0 - 1])

\* lines 3-37
fen_to_cnn_input_compact(text) ==
    IF ~SixFields(text) THEN Raised("ValueError")
    ELSE LET fields == split(text, " ")
             board_fen == fields[1]
             turn == fields[2]
             en_passant == fields[4]
             placed == CompactRows(Zeros788, split(board_fen, "/"), 0)
         IN  IF placed.error # "none" THEN placed
             ELSE LET marked == CompactEnPassant(placed.value, en_passant)
                  IN  IF marked.error # "none" THEN marked
                      ELSE IF turn = <<"b">>
                      THEN Returned(NegatePieceLayers(FlipRows(marked.value)))
                      ELSE marked

\* ========================================================================
\* training.py: fen_to_sparse_array (model.py: one_hot_encode_fen is a copy)
\* ========================================================================
\* model.py line 6: nn.Linear(837, 128)
InputWidth == 837
SparsePlanes == 0..12
SparseLetters == <<"P", "N", "B", "R", "Q", "K", "p", "n", "b", "r", "q", "k">>
\* lines 18-21
sparse_piece_to_index(ch) == IndexIn(SparseLetters, ch) - 1

\* line 24: np.zeros((13, 64))
Zeros1364 == [p \in SparsePlanes, sq \in Squares |-> 0]

\* lines 30-38: the characters of one rank from the k-th on; the result
\* carries the running square_index.
RECURSIVE SparseRank(_, _, _, _)
SparseRank(arr, rank, k, square_index) ==
    IF k > Len(rank) THEN [error |-> "none", value |-> arr, square_index |-> square_index]
    ELSE IF isdigit(rank[k])
    THEN SparseRank(arr, rank, k + 1, square_index + int(rank[k]))
    ELSE IF rank[k] \in PieceLetters
    THEN IF square_index > 63 THEN Raised("IndexError")
         ELSE SparseRank([arr EXCEPT ![sparse_piece_to_index(rank[k]), square_index] = 1],
                         rank, k + 1, square_index + 1)
    ELSE Raised("ValueError")

\* lines 29-38: the ranks from the j-th on
RECURSIVE SparseRows(_, _, _, _)
SparseRows(arr, ranks, j, square_index) ==
    IF j > Len(ranks) THEN Returned(arr)
    ELSE LET done == SparseRank(arr, ranks[j], 1, square_index)
         IN  IF done.error # "none" THEN Raised(done.error)
             ELSE SparseRows(done.value, ranks, j + 1, done.square_index)

\* lines 40-45: the 64 entries of en_passant_array
SparseEnPassant(en_passant) ==
    LET zeros == [i \in 1..64 |-> 0]
    IN  IF en_passant = <<"-">> THEN Returned(zeros)
        ELSE IF Len(en_passant) < 2 THEN Raised("IndexError")
        ELSE IF ~isdigit(en_passant[2]) THEN Raised("ValueError")
        ELSE LET file == FileOf(en_passant[1])
                 rank == int(en_passant[2]) - 1
                 en_passant_index == rank * 8 + file
                 at == IF en_passant_index < 0 THEN 64 + en_passant_index ELSE en_passant_index
             IN  IF at > 63 \/ at < 0 THEN Raised("IndexError")
                 ELSE Returned([zeros EXCEPT ![at + 1] = 1])

\* line 48: output_array.flatten(), row-major
FlattenPlanes(arr) == [i \in 1..(13 * 64) |-> arr[(i - 1) \div 64, (i - 1) % 64]]

Has(text, ch) == \E i \in 1..Len(text) : text[i] = ch

\* lines 10-64
fen_to_sparse_array(text) ==
    IF ~SixFields(text) THEN Raised("ValueError")
    ELSE LET fields == split(text, " ")
             board_fen == fields[1]
             side_to_move == fields[2]
             castling == fields[3]
             en_passant == fields[4]
             placed == SparseRows(Zeros1364, split(board_fen, "/"), 1, 0)
         IN  IF placed.error # "none" THEN placed
             ELSE LET en_passant_array == SparseEnPassant(en_passant)
                      board_flat == FlattenPlanes(placed.value)
                      side_to_move_feature == <<IF side_to_move = <<"w">> THEN 1 ELSE 0>>
                      bit(ch) == IF Has(castling, ch) THEN 1 ELSE 0
                      castling_array == <<bit("K"), bit("Q"), bit("k"), bit("q")>>
                  IN  IF en_passant_array.error # "none" THEN en_passant_array
                      ELSE Returned(board_flat \o side_to_move_feature
                                    \o castling_array \o en_passant_array.value)

\* ========================================================================
\* The encoders side by side: a position, its FEN text (well-formed, or
\* malformed in one place), and what each encoder makes of it.
\* ========================================================================
\* The positions: the empty board or the starting position with at most one
\* more piece on the d or e file, either side to move, and no en-passant
\* target or one of e3 and d6 (the targets after 1. e4 and 1. e4 d5).
FenEpSquares == {20, 43}
FenPlacements ==
    {EmptyPieces, StartPieces}
    \cup {SetPieceAt(base, sq, piece) :
            base \in {EmptyPieces, StartPieces},
            sq \in {x \in Squares : square_file(x) \in {3, 4}},
            piece \in Pieces}
FenPositions ==
    {b \in {MakeBoard(ps, t, ep) :
              ps \in FenPlacements, t \in {WHITE, BLACK}, ep \in {None} \cup FenEpSquares} :
        b.ep_square \notin DOMAIN b.pieces}

\* The ways the text handed to the FEN encoders departs from the position's
\* FEN: not at all; an unrecognized character before or after the piece
\* placement; the last field missing; a seventh field.
Malformations == {"none", "char-first", "char-last", "field-missing", "field-extra"}
Malform(fields, how) ==
    CASE how = "none" -> Join(fields, " ")
      [] how = "char-first" -> Join([fields EXCEPT ![1] = <<"x">> \o @], " ")
      [] how = "char-last" -> Join([fields EXCEPT ![1] = @ \o <<"?">>], " ")
      [] how = "field-missing" -> Join(SubSeq(fields, 1, 5), " ")
      [] how = "field-extra" -> Join(fields \o << <<"0">> >>, " ")

InitFen ==
    /\ pc = "input"
    /\ position \in FenPositions
    /\ \E how \in Malformations : fen = Malform(FenFields(position), how)
    /\ tensor = <<>>
    /\ cnn_input = <<>>
    /\ output_array = <<>>
    /\ idleReader
    /\ idleEval
    /\ idleWalker

\* board_to_np_array(board)
EncodePosition ==
    /\ pc = "input"
    /\ tensor' = board_to_np_array(position)
    /\ pc' = "board-encoded"
    /\ UNCHANGED <<position, fen, cnn_input, output_array, readerVars, evalVars, walkerVars>>

\* fen_to_cnn_input_compact(fen)
EncodeCompact ==
    /\ pc = "board-encoded"
    /\ cnn_input' = fen_to_cnn_input_compact(fen)
    /\ pc' = "compact-encoded"
    /\ UNCHANGED <<position, fen, tensor, output_array, readerVars, evalVars, walkerVars>>

\* fen_to_sparse_array(fen)
EncodeSparse ==
    /\ pc = "compact-encoded"
    /\ output_array' = fen_to_sparse_array(fen)
    /\ pc' = "done"
    /\ UNCHANGED <<position, fen, tensor, cnn_input, readerVars, evalVars, walkerVars>>

NextFen == EncodePosition \/ EncodeCompact \/ EncodeSparse

SpecFen == InitFen /\ [][NextFen]_vars

\* C4: the board encoder and the FEN encoder give the same value in every
\* cell of the 7x8x8 tensor for a position and its FEN.
C4_EncodersAgree ==
    (pc = "done" /\ fen = PositionFen(position)) =>
        /\ cnn_input.error = "none"
        /\ \A p \in Planes, r \in Rows, c \in Cols :
              cnn_input.value[p, r, c] = tensor[p, r, c]

\* The cells of plane 6 that are not zero.
Marked(arr) == {rc \in Rows \X Cols : arr[6, rc[1], rc[2]] # 0}
\* The cells (row, column) at which planes 0-5 of the two arrays differ.
Differing(arr1, arr2) ==
    {rc \in Rows \X Cols : \E p \in 0..5 : arr1[p, rc[1], rc[2]] # arr2[p, rc[1], rc[2]]}
\* The position with a pawn standing on its en-passant square.
PawnOnTarget(b) ==
    [b EXCEPT !.pieces = SetPieceAt(b.pieces, b.ep_square, Piece("PAWN", WHITE))]

\* C6: in both 7-plane encoders plane 6 is all-zero iff the position has no
\* en-passant target, and with a target it holds exactly one non-zero
\* entry, -1, at the cell where the same encoder writes a piece standing on
\* the en-passant square.
C6_EnPassantPlane ==
    (pc = "done" /\ fen = PositionFen(position)) =>
        /\ cnn_input.error = "none"
        /\ (Marked(tensor) = {}) <=> (position.ep_square = None)
        /\ (Marked(cnn_input.value) = {}) <=> (position.ep_square = None)
        /\ (position.ep_square # None) =>
              /\ Cardinality(Marked(tensor)) = 1
              /\ \A rc \in Marked(tensor) : tensor[6, rc[1], rc[2]] = 0 - 1
              /\ Marked(tensor) =
                    Differing(tensor, board_to_np_array(PawnOnTarget(position)))
              /\ Cardinality(Marked(cnn_input.value)) = 1
              /\ \A rc \in Marked(cnn_input.value) : cnn_input.value[6, rc[1], rc[2]] = 0 - 1
              /\ Marked(cnn_input.value) =
                    Differing(cnn_input.value,
                              fen_to_cnn_input_compact(
                                  PositionFen(PawnOnTarget(position))).value)

\* The text has a field count other than 6, or a character in its
\* piece-placement field that is no digit, "/" or piece letter.
MalformedText(text) ==
    \/ Len(split(text, " ")) # 6
    \/ \E i \in 1..Len(split(text, " ")[1]) :
          LET ch == split(text, " ")[1][i]
          IN  ~isdigit(ch) /\ ch # "/" /\ ch \notin PieceLetters

\* C7: both FEN encoders signal an error and return no array for a text with
\* a field count other than 6 or an unrecognized piece-placement character.
C7_MalformedRejected ==
    (pc = "done" /\ MalformedText(fen)) =>
        /\ cnn_input.error # "none"
        /\ output_array.error # "none"

\* C9: the sparse encoder's output for a well-formed FEN has length
\* 13*64+5 = 837, the input width of the evaluation model's first layer.
C9_SparseWidth ==
    (pc = "done" /\ fen = PositionFen(position)) =>
        /\ output_array.error = "none"
        /\ Len(output_array.value) = InputWidth

\* ========================================================================
\* position_data.py: generate_training_data
\* ========================================================================
\* The games the walker is run on: the standard starting position with
\* either side to move first, a mainline of pawn moves (single steps, and
\* double steps from the pawn's home rank) on the d and e files, and a
\* Result header.
WalkFiles == {3, 4}
Results == {"1-0", "0-1", "1/2-1/2", "*", "(missing)"}

PawnMoves(b) ==
    LET dir == IF b.turn = WHITE THEN 8 ELSE 0 - 8
        home == IF b.turn = WHITE THEN 1 ELSE 6
        own == {sq \in DOMAIN b.pieces :
                  /\ b.pieces[sq] = Piece("PAWN", b.turn)
                  /\ square_file(sq) \in WalkFiles
                  /\ sq + dir \in Squares
                  /\ sq + dir \notin DOMAIN b.pieces}
    IN  {Move(sq, sq + dir) : sq \in own}
        \cup {Move(sq, sq + 2 * dir) :
                sq \in {x \in own : square_rank(x) = home
                                      /\ x + 2 * dir \notin DOMAIN b.pieces}}

RECURSIVE Mainlines(_, _)
Mainlines(b, n) ==
    IF n = 0 THEN {<<>>}
    ELSE {<<>>} \cup UNION {{<<m>> \o rest : rest \in Mainlines(push(b, m), n - 1)} :
                             m \in PawnMoves(b)}

\* line 38: game.board()
game_board(g) == MakeBoard(StartPieces, g.start_turn, None)

\* line 41 with a draw taken for a black win
WinnerDrawAsBlack(result) ==
    IF result = "1-0" THEN "white" ELSE IF result \in {"0-1", "1/2-1/2"} THEN "black" ELSE "None"
\* lines 40-41
Winner(result) ==
    IF result = "1-0" THEN "white" ELSE IF result = "0-1" THEN "black" ELSE "None"

\* lines 49-50: `if board.turn == chess.BLACK: evaluation = -evaluation`
TurnSigned(b, evaluation) == IF b.turn = BLACK THEN RatNeg(evaluation) ELSE evaluation

\* lines 47-51: the PositionData of the board b reached by move i of n
PositionData(b, i, n, winner) ==
    [tensor |-> board_to_np_array(b),
     evaluation |-> TurnSigned(b, compute_evaluation(i, n, winner))]

InitWalker ==
    /\ pc = "start"
    /\ \E t \in {WHITE, BLACK} : \E r \in Results :
         \E ms \in Mainlines(MakeBoard(StartPieces, t, None), MaxMoves) :
            game = [start_turn |-> t, moves |-> ms, result |-> r]
    /\ board = <<>>
    /\ positions = <<>>
    /\ idleReader
    /\ idleEval
    /\ idleEncoders

\* lines 37-43, decisive result: on to the loop
Begin ==
    /\ pc = "start"
    /\ Winner(game.result) # "None"
    /\ board' = game_board(game)
    /\ pc' = "loop"
    /\ UNCHANGED <<game, positions, readerVars, evalVars, encoderVars>>

\* lines 37-43, `if not winner: return []`
ReturnEmpty ==
    /\ pc = "start"
    /\ Winner(game.result) = "None"
    /\ board' = game_board(game)
    /\ positions' = <<>>
    /\ pc' = "done"
    /\ UNCHANGED <<game, readerVars, evalVars, encoderVars>>

\* lines 45-51: one iteration of the loop over the mainline
WalkMove ==
    /\ pc = "loop"
    /\ Len(positions) < Len(game.moves)
    /\ LET i == Len(positions) + 1
           total_moves == Len(game.moves)
           pushed == push(board, game.moves[i])
       IN  /\ board' = pushed
           /\ positions' = Append(positions,
                  PositionData(pushed, i, total_moves, Winner(game.result)))
    /\ UNCHANGED <<pc, game, readerVars, evalVars, encoderVars>>

\* line 53
ReturnPositions ==
    /\ pc = "loop"
    /\ Len(positions) = Len(game.moves)
    /\ pc' = "done"
    /\ UNCHANGED <<game, board, positions, readerVars, evalVars, encoderVars>>

NextWalker == Begin \/ ReturnEmpty \/ WalkMove \/ ReturnPositions

SpecWalker == InitWalker /\ [][NextWalker]_vars

\* The position after the first i moves of game g.
RECURSIVE BoardAfter(_, _)
BoardAfter(g, i) == IF i = 0 THEN game_board(g) ELSE push(BoardAfter(g, i - 1), g.moves[i])

\* C2: the walker returns n pairs for a game of n moves whose Result is 1-0
\* or 0-1 and no pair for any other Result; the i-th pair holds the encoding
\* of the position after exactly the first i moves and a label whose
\* magnitude is compute_evaluation(i, n, winner).
C2_OnePairPerMove ==
    (pc = "done") =>
        LET n == Len(game.moves)
            winner == IF game.result = "1-0" THEN "white" ELSE "black"
        IN  IF game.result \in {"1-0", "0-1"}
            THEN /\ Len(positions) = n
                 /\ \A i \in 1..n :
                      /\ positions[i].tensor = board_to_np_array(BoardAfter(game, i))
                      /\ \/ RatEq(positions[i].evaluation, compute_evaluation(i, n, winner))
                         \/ RatEq(positions[i].evaluation,
                                  RatNeg(compute_evaluation(i, n, winner)))
            ELSE positions = <<>>

\* A finished walk of a decisive game of at least 3 moves.
C2_Witness ==
    /\ pc = "done"
    /\ game.result = "1-0"
    /\ Len(game.moves) >= 3
    /\ Len(positions) = Len(game.moves)

\* C5: the label of the i-th pair is non-negative exactly when the player
\* who made the i-th move is the game's winner, and non-positive otherwise.
C5_MoverAdvantage ==
    (pc \in {"loop", "done"}) =>
        \A i \in 1..Len(positions) :
            LET mover == BoardAfter(game, i - 1).turn
                moverWon == \/ (mover = WHITE /\ game.result = "1-0")
                            \/ (mover = BLACK /\ game.result = "0-1")
                label == positions[i].evaluation
            IN  /\ RatLeq(RatZero, label) <=> moverWon
                /\ ~moverWon => RatLeq(label, RatZero)

====
